---- MODULE Spec2Model ----
(***************************************************************************)
(* Fashion creative agent: the LangGraph workflow of src/src/agent/graph.ts *)
(* (inferPersona, generateImage, generateCopy, error, end), the state       *)
(* annotation with its reducers (src/src/server.ts, lines 560-606) and the  *)
(* Express handlers that call the workflow or poll the image provider.      *)
(*                                                                          *)
(* JavaScript values are encoded so that TLC only ever compares values of   *)
(* one shape:                                                               *)
(*   - a string is a TLA+ string; `undefined` is the string UNDEF;          *)
(*   - an object that may be null is a record with a field `set`;           *)
(*   - a string the code splits or parses is a sequence of characters;      *)
(*   - an error message built by a template is the sequence of its parts.   *)
(* The `messages` channel of the annotation is never read or written by a   *)
(* node of the graph and is left out.                                       *)
(***************************************************************************)
EXTENDS Integers, Sequences, FiniteSets, TLC

VARIABLES
    endpoints,     \* GET /api/poll-image: what each regional endpoint does
    poll,          \* GET /api/poll-image: the handler's locals and response
    caller,        \* who runs the workflow: "invoke" (graph.invoke) or "http"
    input,         \* the input of the invocation / the body of the request
    env,           \* process.env: which API keys are configured
    state,         \* the workflow state (StateAnnotation.State)
    pc,            \* the node about to run, or where the invocation ended
    trace,         \* the nodes that have started, in order
    returned,      \* what each of them returned or threw, in order
    imageRequests, \* requests sent to the image provider
    copyRequests,  \* requests sent to the copy provider
    inflight,      \* remote requests awaiting their response
    provider,      \* what each provider does with the request sent to it
    timers,        \* the abort timers that are armed
    prompt,        \* the prompt of the request to the image provider
    exception,     \* the exception that left graph.invoke, if any
    http,          \* the response of POST /api/generate-creative
    csv            \* POST /api/process-csv: the upload, the locals, the reply

pollVars == <<endpoints, poll>>

vars == <<endpoints, poll, caller, input, env, state, pc, trace, returned,
          imageRequests, copyRequests, inflight, provider,
          timers, prompt, exception, http, csv>>

----------------------------------------------------------------------------
(* JavaScript values *)

UNDEF == "undefined"
NULL == "null"
EMPTY == ""

\* JavaScript truthiness of a string that may be undefined.
Truthy(s) == s # UNDEF /\ s # EMPTY

\* a || b on strings.
OrElse(a, b) == IF Truthy(a) THEN a ELSE b

\* A string the code takes apart, as the sequence of its characters.
UNDEF_CHARS == <<UNDEF>>
AGE_18_25 == <<"1", "8", "-", "2", "5">>
AGE_26_35 == <<"2", "6", "-", "3", "5">>
AGE_36_45 == <<"3", "6", "-", "4", "5">>
AGE_18_35 == <<"1", "8", "-", "3", "5">>

----------------------------------------------------------------------------
(* state.ts: the records of the workflow state *)

PersonaType == {"Streetwear", "Minimalist", "LuxuryClassic", "Athleisure"}

NoProfile ==
    [set |-> FALSE, age_range |-> UNDEF_CHARS, gender |-> UNDEF,
     price_tier_demographics |-> UNDEF, preferred_category |-> UNDEF]

NoProduct ==
    [set |-> FALSE, title |-> UNDEF, brand_name |-> UNDEF, colorways |-> << >>]

NoOptions == [set |-> FALSE, fallback_image_url |-> UNDEF]

NoCreative ==
    [set |-> FALSE, image_url |-> UNDEF, copy |-> UNDEF, persona |-> NULL,
     polling_url |-> UNDEF, request_id |-> UNDEF]

NoError == [set |-> FALSE, error |-> << >>, retry_count |-> 0]

ErrorState(msg) == [set |-> TRUE, error |-> msg, retry_count |-> 0]

\* A node's return value with no field in it.
NoUpdate == [creative |-> NoCreative, persona |-> NULL, error |-> NoError]

\* The reducer of every channel: (left, right) => right ?? left.
ReduceObject(left, right) == IF right.set THEN right ELSE left

ReduceString(left, right) == IF right # NULL /\ right # UNDEF THEN right ELSE left

\* Merge that also writes the status channel: "error" with an ErrorState,
\* "success" with a creative.
MergeWritesStatus(s, update) ==
    [s EXCEPT !.creative = ReduceObject(s.creative, update.creative),
              !.persona = ReduceString(s.persona, update.persona),
              !.error = ReduceObject(s.error, update.error),
              !.status = IF update.error.set THEN "error"
                         ELSE IF update.creative.set THEN "success"
                         ELSE @]

\* Merge with (left, right) => right as the reducer of the error channel:
\* an update that names no error resets it.
MergeErrorReset(s, update) ==
    [s EXCEPT !.creative = ReduceObject(s.creative, update.creative),
              !.persona = ReduceString(s.persona, update.persona),
              !.error = update.error]

\* The state after a node returned `update`; channels the update does not
\* name keep their value.
Merge(s, update) ==
    [s EXCEPT !.creative = ReduceObject(s.creative, update.creative),
              !.persona = ReduceString(s.persona, update.persona),
              !.error = ReduceObject(s.error, update.error)]

\* The state of a new invocation: every channel's default, then the input
\* written through the reducers.
InitialState(in) ==
    [profile |-> ReduceObject(NoProfile, in.profile),
     product |-> ReduceObject(NoProduct, in.product),
     options |-> ReduceObject(NoOptions, in.options),
     creative |-> ReduceObject(NoCreative, in.creative),
     persona |-> ReduceString(NULL, in.persona),
     error |-> ReduceObject(NoError, in.error),
     status |-> "pending"]

----------------------------------------------------------------------------
(* String.prototype.split and parseInt, as inferPersona uses them *)

\* s.split(sep)[0]: the characters before the first sep (all of s without one).
RECURSIVE SplitFirst(_, _)
SplitFirst(s, sep) ==
    IF s = << >> \/ Head(s) = sep
    THEN << >>
    ELSE <<Head(s)>> \o SplitFirst(Tail(s), sep)

\* parseInt skips leading white space.
RECURSIVE TrimStart(_)
TrimStart(s) ==
    IF s # << >> /\ Head(s) = " " THEN TrimStart(Tail(s)) ELSE s

HexDigits ==
    <<"0", "1", "2", "3", "4", "5", "6", "7", "8", "9",
      "a", "b", "c", "d", "e", "f">>

\* The value of character c as a digit, 16 when it is none.
DigitValue(c) ==
    IF \E i \in 1..16 : HexDigits[i] = c
    THEN (CHOOSE i \in 1..16 : HexDigits[i] = c) - 1
    ELSE 16

\* The longest prefix of s made of digits of the radix.
RECURSIVE TakeDigits(_, _)
TakeDigits(s, radix) ==
    IF s = << >> \/ DigitValue(Head(s)) >= radix
    THEN << >>
    ELSE <<Head(s)>> \o TakeDigits(Tail(s), radix)

RECURSIVE DigitsValue(_, _, _)
DigitsValue(s, radix, acc) ==
    IF s = << >> THEN acc
    ELSE DigitsValue(Tail(s), radix, acc * radix + DigitValue(Head(s)))

NaN == [nan |-> TRUE, value |-> 0]

\* parseInt(s) with no radix argument: white space, a sign, an optional 0x
\* prefix, then the digits up to the first character that is none; NaN
\* when there is no digit.
ParseInt(s) ==
    LET t == TrimStart(s)
        signed == t # << >> /\ Head(t) \in {"+", "-"}
        sign == IF t # << >> /\ Head(t) = "-" THEN -1 ELSE 1
        u == IF signed THEN Tail(t) ELSE t
        hex == Len(u) >= 2 /\ u[1] = "0" /\ u[2] \in {"x", "X"}
        radix == IF hex THEN 16 ELSE 10
        v == IF hex THEN Tail(Tail(u)) ELSE u
        digits == TakeDigits(v, radix)
    IN  IF digits = << >> THEN NaN
        ELSE [nan |-> FALSE, value |-> sign * DigitsValue(digits, radix, 0)]

\* n < k in JavaScript: false when n is NaN.
LessThan(n, k) == ~n.nan /\ n.value < k

----------------------------------------------------------------------------
(* graph.ts: inferPersona *)

\* PersonaOf with the fourth rule reading the age range of the first.
PersonaOfWrongRange(profile) ==
    IF profile.age_range = AGE_18_25 /\ profile.gender = "Male"
    THEN "Streetwear"
    ELSE IF profile.age_range = AGE_26_35 /\ profile.gender = "Female"
    THEN "Minimalist"
    ELSE IF profile.age_range = AGE_36_45
            /\ profile.price_tier_demographics = "Premium"
    THEN "LuxuryClassic"
    ELSE IF profile.age_range = AGE_18_25
            /\ profile.preferred_category = "Athleisure"
    THEN "Athleisure"
    ELSE IF LessThan(ParseInt(SplitFirst(profile.age_range, "-")), 30)
    THEN "Streetwear"
    ELSE "Minimalist"

\* The decision table of inferPersona for a profile whose age_range is a
\* string.
PersonaOf(profile) ==
    IF profile.age_range = AGE_18_25 /\ profile.gender = "Male"
    THEN "Streetwear"
    ELSE IF profile.age_range = AGE_26_35 /\ profile.gender = "Female"
    THEN "Minimalist"
    ELSE IF profile.age_range = AGE_36_45
            /\ profile.price_tier_demographics = "Premium"
    THEN "LuxuryClassic"
    ELSE IF profile.age_range = AGE_18_35
            /\ profile.preferred_category = "Athleisure"
    THEN "Athleisure"
    ELSE IF LessThan(ParseInt(SplitFirst(profile.age_range, "-")), 30)
    THEN "Streetwear"
    ELSE "Minimalist"

\* The default rule calls profile.age_range.split, a TypeError when the
\* profile has no age_range; the four rules before it only compare.
PersonaThrows(profile) == profile.age_range = UNDEF_CHARS

MSG_MISSING_PERSONA == <<"Missing required data for persona inference">>
MSG_MISSING_IMAGE == <<"Missing required data for image generation">>
MSG_MISSING_COPY == <<"Missing required data for copy generation">>
MSG_NO_BFL_KEY == <<"BFL_API_KEY environment variable is required">>
MSG_NO_OPENAI_KEY == <<"OPENAI_API_KEY environment variable is required">>
MSG_TYPE_ERROR == <<"Cannot read properties of undefined (reading 'split')">>

----------------------------------------------------------------------------
(* The inputs and the providers' answers the model draws from *)

Profiles ==
    { NoProfile,
      [set |-> TRUE, age_range |-> AGE_18_25, gender |-> "Male",
       price_tier_demographics |-> UNDEF, preferred_category |-> UNDEF],
      [set |-> TRUE, age_range |-> AGE_36_45, gender |-> "Female",
       price_tier_demographics |-> "Premium", preferred_category |-> "beauty"],
      [set |-> TRUE, age_range |-> <<"4", "6", "+">>, gender |-> "Female",
       price_tier_demographics |-> UNDEF, preferred_category |-> UNDEF],
      \* the Profile of state.ts and of the CSV rows: no demographic hints
      [set |-> TRUE, age_range |-> UNDEF_CHARS, gender |-> UNDEF,
       price_tier_demographics |-> UNDEF, preferred_category |-> UNDEF] }

Products ==
    { NoProduct,
      [set |-> TRUE, title |-> "Premium Streetwear Hoodie",
       brand_name |-> "Demo Brand", colorways |-> <<"#000000", "#F5F5F5">>] }

CALLER_FALLBACK == "https://cdn.example.com/fallback.png"
DEFAULT_FALLBACK == "https://dummyimage.com/1080x1080/111827/f5f5f5.png&text=Backup"

OptionsSet ==
    { NoOptions,
      [set |-> TRUE, fallback_image_url |-> UNDEF],
      [set |-> TRUE, fallback_image_url |-> CALLER_FALLBACK] }

PLACEHOLDER_URL ==
    "https://via.placeholder.com/1024x1024/cccccc/666666?text=Image+Generating..."
POLLING_URL == "https://api.eu2.bfl.ai/v1/get_result?id=req-1"
REQUEST_ID == "req-1"
DEFAULT_COPY == "Discover the perfect style for you."
PROVIDER_COPY == "Own the street."

\* A creative a caller may hand to graph.invoke to resume from.
GivenCreatives ==
    { NoCreative,
      [set |-> TRUE, image_url |-> "https://cdn.example.com/given.png",
       copy |-> EMPTY, persona |-> "Minimalist", polling_url |-> UNDEF,
       request_id |-> "req-0"],
      [set |-> TRUE, image_url |-> "https://cdn.example.com/given.png",
       copy |-> "Less is more.", persona |-> "Minimalist",
       polling_url |-> UNDEF, request_id |-> "req-0"] }

GivenPersonas == { NULL, "Minimalist" }

GivenErrors ==
    { NoError,
      [set |-> TRUE, error |-> <<"Upstream failure">>, retry_count |-> 1] }

\* What the image provider can do with POST /v1/flux-pro-1.1; "timeout"
\* is a provider that does not answer.
ImageOutcomes ==
    [kind : {"ok"}, polling_url : {UNDEF, POLLING_URL},
     request_id : {UNDEF, REQUEST_ID}]
    \cup [kind : {"bad_body", "http_error", "network_error", "timeout"},
          polling_url : {UNDEF}, request_id : {UNDEF}]

\* What the copy provider can do with POST /v1/chat/completions: on "ok"
\* `content` is choices[0]?.message?.content; "no_choices" is a body
\* without a choices array.
CopyOutcomes ==
    [kind : {"ok"}, content : {PROVIDER_COPY, EMPTY, UNDEF}]
    \cup [kind : {"no_choices", "bad_body", "http_error", "network_error",
                  "timeout"},
          content : {UNDEF}]

\* No request has been sent to the providers.
NoAnswers ==
    [image |-> [kind |-> "none", polling_url |-> UNDEF, request_id |-> UNDEF],
     copy |-> [kind |-> "none", content |-> UNDEF]]

\* setTimeout(() => controller.abort(), ...) of the two steps.
IMAGE_TIMEOUT_MS == 45000

COPY_TIMEOUT_MS == 15000

ImageTimer == [of |-> "image", ms |-> IMAGE_TIMEOUT_MS]

CopyTimer == [of |-> "copy", ms |-> COPY_TIMEOUT_MS]

\* The armed timers once the fetch settled: clearTimeout runs when the
\* fetch resolved, the timer is gone when it fired; after a transport
\* error the timer stays armed (its abort, later, has no effect).
TimersAfter(armed, timer, kind) ==
    IF kind = "network_error" THEN armed ELSE armed \ {timer}

\* error.message of what the try block of a step threw.
FailureMessage(api, kind) ==
    CASE kind = "http_error" ->
            <<api, " API error: ", "500 Internal Server Error - ", "down">>
      [] kind = "network_error" -> <<"fetch failed">>
      [] kind = "timeout" -> <<"This operation was aborted">>
      [] kind = "bad_body" -> <<"Unexpected token < in JSON at position 0">>
      [] kind = "no_choices" ->
            <<"Cannot read properties of undefined (reading '0')">>

----------------------------------------------------------------------------
(* graph.ts: the graph, its route function and its nodes *)

\* route(state): the conditional edge out of "start".
route(s) ==
    IF s.error.set THEN "error"
    ELSE IF s.persona = NULL THEN "inferPersona"
    ELSE IF ~s.creative.set THEN "generateImage"
    ELSE IF ~Truthy(s.creative.copy) THEN "generateCopy"
    ELSE "end"

\* Edge with the edges out of the steps wired in the wrong order.
EdgeSwapped(node) ==
    CASE node = "inferPersona" -> "generateCopy"
      [] node = "generateCopy" -> "generateImage"
      [] node = "generateImage" -> "end"
      [] node = "error" -> "END"
      [] node = "end" -> "END"

\* addEdge(from, to): the node that runs after `node` returned.
Edge(node) ==
    CASE node = "inferPersona" -> "generateImage"
      [] node = "generateImage" -> "generateCopy"
      [] node = "generateCopy" -> "end"
      [] node = "error" -> "END"
      [] node = "end" -> "END"

\* A node starts running.
Enter(node) ==
    /\ pc = node
    /\ trace' = Append(trace, node)

\* A node returns `update`: the update goes through the reducers and the
\* node's outgoing edge is followed.
Return(node, update) ==
    /\ state' = Merge(state, update)
    /\ returned' = Append(returned,
                          [node |-> node,
                           kind |-> IF update.error.set THEN "error"
                                    ELSE "update",
                           update |-> update])
    /\ pc' = Edge(node)
    /\ UNCHANGED exception

\* A node throws: nothing in the graph catches, the exception leaves
\* graph.invoke.
Throw(node, msg) ==
    /\ returned' = Append(returned, [node |-> node, kind |-> "throw",
                                     update |-> NoUpdate])
    /\ pc' = "thrown"
    /\ exception' = msg
    /\ UNCHANGED state

\* The entry of the graph. The only edge the code gives the graph to begin
\* with is the conditional edge out of "start": route picks the first node.
\* No other edge evaluates route.
Start ==
    /\ pc = "start"
    /\ pc' = route(state)
    /\ UNCHANGED <<pollVars, csv, caller, input, env, state, returned, trace,
                   imageRequests, copyRequests, inflight, provider,
                   timers, prompt, exception, http>>

InferPersona ==
    /\ Enter("inferPersona")
    /\ IF ~state.profile.set \/ ~state.product.set
       THEN Return("inferPersona",
                   [NoUpdate EXCEPT !.error = ErrorState(MSG_MISSING_PERSONA)])
       ELSE IF PersonaThrows(state.profile)
       THEN Throw("inferPersona", MSG_TYPE_ERROR)
       ELSE Return("inferPersona",
                   [NoUpdate EXCEPT !.persona = PersonaOf(state.profile)])
    /\ UNCHANGED <<pollVars, csv, caller, input, env, imageRequests,
                   copyRequests, inflight, provider, timers, prompt, http>>

\* The keys of categoryPrompts.
CategoryKeys == {"fashion", "lifestyle", "beauty", "travel", "food", "tech"}

\* Names every object inherits from Object.prototype: categoryPrompts is
\* an object literal, so categoryPrompts[name] is that inherited member,
\* which is truthy.
InheritedKeys == {"constructor", "toString", "valueOf", "hasOwnProperty"}

\* categoryPrompts[category], stringified as the template literal of the
\* return statement does; UNDEF when the object has no such member.
CategoryPrompt(category, product) ==
    CASE category = "fashion" ->
            <<"Fashion product photography of ", product.title, " by ",
              product.brand_name>>
      [] category = "lifestyle" ->
            <<"Lifestyle product photography of ", product.title, " by ",
              product.brand_name>>
      [] category = "beauty" ->
            <<"Beauty product photography of ", product.title, " by ",
              product.brand_name>>
      [] category = "travel" ->
            <<"Travel lifestyle photography featuring ", product.title,
              " by ", product.brand_name>>
      [] category = "food" ->
            <<"Food and dining photography featuring ", product.title,
              " by ", product.brand_name>>
      [] category = "tech" ->
            <<"Tech product photography of ", product.title, " by ",
              product.brand_name>>
      [] category \in InheritedKeys ->
            <<"function ",
              IF category = "constructor" THEN "Object" ELSE category,
              "() { [native code] }">>
      [] OTHER -> <<UNDEF>>

PersonaPrompt(persona) ==
    CASE persona = "Streetwear" ->
            "urban street style, graffiti background, neon lighting, chunky sneakers, oversized fit, edgy aesthetic"
      [] persona = "Minimalist" ->
            "clean minimal studio, soft natural lighting, neutral colors, editorial style, beige background"
      [] persona = "LuxuryClassic" ->
            "luxury studio setup, elegant marble background, softbox lighting, silk textures, gold accents"
      [] persona = "Athleisure" ->
            "athletic lifestyle, gym or outdoor setting, dynamic lighting, sporty aesthetic, active lifestyle"
      [] OTHER -> UNDEF

\* Array.prototype.join: the elements in their order, `sep` between them.
RECURSIVE Join(_, _)
Join(list, sep) ==
    IF list = << >> THEN << >>
    ELSE IF Len(list) = 1 THEN <<Head(list)>>
    ELSE <<Head(list), sep>> \o Join(Tail(list), sep)

PROMPT_SUFFIX == ", high quality, professional photography, 4K resolution"

\* createBFLPrompt(persona, product, profile): the prompt as the sequence
\* of its parts.
createBFLPrompt(persona, product, profile) ==
    LET category == OrElse(profile.preferred_category, "fashion")
        own == CategoryPrompt(category, product)
        basePrompt == IF own = <<UNDEF>>
                      THEN CategoryPrompt("fashion", product)
                      ELSE own
    IN  basePrompt
        \o <<", ", PersonaPrompt(persona), ", colors: ">>
        \o Join(product.colorways, ", ")
        \o <<PROMPT_SUFFIX>>

\* GenerateImage with a guard that tests options and persona only.
GenerateImageNoInputTest ==
    /\ Enter("generateImage")
    /\ IF ~state.options.set \/ state.persona = NULL
       THEN /\ Return("generateImage",
                      [NoUpdate EXCEPT !.error = ErrorState(MSG_MISSING_IMAGE)])
            /\ UNCHANGED <<imageRequests, inflight, provider, timers, prompt>>
       ELSE IF ~env.BFL_API_KEY
       THEN /\ Throw("generateImage", MSG_NO_BFL_KEY)
            /\ UNCHANGED <<imageRequests, inflight, provider, timers, prompt>>
       ELSE /\ imageRequests' = imageRequests + 1
            /\ prompt' = createBFLPrompt(state.persona, state.product,
                                         state.profile)
            /\ timers' = timers \cup {ImageTimer}
            /\ inflight' = inflight \cup {"image"}
            /\ \E outcome \in ImageOutcomes :
                  provider' = [provider EXCEPT !.image = outcome]
            /\ pc' = "generateImage.fetch"
            /\ UNCHANGED <<state, returned, exception>>
    /\ UNCHANGED <<pollVars, csv, caller, input, env, copyRequests, http>>

\* generateImage up to its fetch: the guard, the API key, then the POST.
GenerateImage ==
    /\ Enter("generateImage")
    /\ IF ~state.profile.set \/ ~state.product.set \/ ~state.options.set
          \/ state.persona = NULL
       THEN /\ Return("generateImage",
                      [NoUpdate EXCEPT !.error = ErrorState(MSG_MISSING_IMAGE)])
            /\ UNCHANGED <<imageRequests, inflight, provider, timers, prompt>>
       ELSE IF ~env.BFL_API_KEY
       THEN /\ Throw("generateImage", MSG_NO_BFL_KEY)
            /\ UNCHANGED <<imageRequests, inflight, provider, timers, prompt>>
       ELSE /\ imageRequests' = imageRequests + 1
            /\ prompt' = createBFLPrompt(state.persona, state.product,
                                         state.profile)
            /\ timers' = timers \cup {ImageTimer}
            /\ inflight' = inflight \cup {"image"}
            /\ \E outcome \in ImageOutcomes :
                  provider' = [provider EXCEPT !.image = outcome]
            /\ pc' = "generateImage.fetch"
            /\ UNCHANGED <<state, returned, exception>>
    /\ UNCHANGED <<pollVars, csv, caller, input, env, copyRequests, http>>

\* ImageCreative without `|| placeholder`.
ImageCreativeNoPlaceholder(s, result) ==
    [set |-> TRUE,
     image_url |-> result.polling_url,
     copy |-> EMPTY,
     persona |-> s.persona,
     polling_url |-> result.polling_url,
     request_id |-> result.request_id]

\* The creative generateImage builds from the provider's JSON.
ImageCreative(s, result) ==
    [set |-> TRUE,
     image_url |-> OrElse(result.polling_url, PLACEHOLDER_URL),
     copy |-> EMPTY,
     persona |-> s.persona,
     polling_url |-> result.polling_url,
     request_id |-> result.request_id]

\* What generateImage returns once the fetch has settled.
ImageUpdate(s, outcome) ==
    IF outcome.kind = "ok"
    THEN [NoUpdate EXCEPT !.creative = ImageCreative(s, outcome)]
    ELSE [NoUpdate EXCEPT !.error =
            ErrorState(<<"Image generation failed: ">>
                       \o FailureMessage("BFL", outcome.kind))]

\* GenerateImageSettle with a retry: a failed request sends the node back
\* to its start instead of returning the ErrorState.
GenerateImageSettleRetry ==
    /\ pc = "generateImage.fetch"
    /\ IF provider.image.kind = "ok" \/ imageRequests >= 3
       THEN /\ Return("generateImage", ImageUpdate(state, provider.image))
            /\ UNCHANGED trace
       ELSE /\ pc' = "generateImage"
            /\ trace' = SubSeq(trace, 1, Len(trace) - 1)
            /\ UNCHANGED <<state, returned, exception>>
    /\ inflight' = inflight \ {"image"}
    /\ timers' = TimersAfter(timers, ImageTimer, provider.image.kind)
    /\ UNCHANGED <<pollVars, csv, caller, input, env, imageRequests,
                   copyRequests, provider, prompt, http>>

\* GenerateImageSettle without the abort timer: a request the provider
\* never answers stays pending.
GenerateImageSettleNoAbort ==
    /\ pc = "generateImage.fetch"
    /\ provider.image.kind # "timeout"
    /\ Return("generateImage", ImageUpdate(state, provider.image))
    /\ inflight' = inflight \ {"image"}
    /\ timers' = TimersAfter(timers, ImageTimer, provider.image.kind)
    /\ UNCHANGED <<pollVars, csv, caller, input, env, trace, imageRequests,
                   copyRequests, provider, prompt, http>>

\* generateImage from its fetch on: the response, a transport failure, or
\* the abort by the timer when the provider has not answered; everything
\* thrown in the try block is caught.
GenerateImageSettle ==
    /\ pc = "generateImage.fetch"
    /\ Return("generateImage", ImageUpdate(state, provider.image))
    /\ inflight' = inflight \ {"image"}
    /\ timers' = TimersAfter(timers, ImageTimer, provider.image.kind)
    /\ UNCHANGED <<pollVars, csv, caller, input, env, trace, imageRequests,
                   copyRequests, provider, prompt, http>>

\* generateCopy up to its fetch.
GenerateCopy ==
    /\ Enter("generateCopy")
    /\ IF ~state.profile.set \/ ~state.product.set \/ state.persona = NULL
          \/ ~state.creative.set
       THEN /\ Return("generateCopy",
                      [NoUpdate EXCEPT !.error = ErrorState(MSG_MISSING_COPY)])
            /\ UNCHANGED <<copyRequests, inflight, provider, timers, prompt>>
       ELSE IF ~env.OPENAI_API_KEY
       THEN /\ Throw("generateCopy", MSG_NO_OPENAI_KEY)
            /\ UNCHANGED <<copyRequests, inflight, provider, timers, prompt>>
       ELSE /\ copyRequests' = copyRequests + 1
            /\ timers' = timers \cup {CopyTimer}
            /\ UNCHANGED prompt
            /\ inflight' = inflight \cup {"copy"}
            /\ \E outcome \in CopyOutcomes :
                  provider' = [provider EXCEPT !.copy = outcome]
            /\ pc' = "generateCopy.fetch"
            /\ UNCHANGED <<state, returned, exception>>
    /\ UNCHANGED <<pollVars, csv, caller, input, env, imageRequests, http>>

\* UpdatedCreative without the spread of state.creative.
UpdatedCreativeNoSpread(creative, copy) ==
    [NoCreative EXCEPT !.set = TRUE, !.copy = copy]

\* { ...state.creative, copy }.
UpdatedCreative(creative, copy) == [creative EXCEPT !.copy = copy]

\* CopyUpdate with `??` in place of `||`: only an absent content is
\* replaced by the default string.
CopyUpdateNullish(s, outcome) ==
    IF outcome.kind = "ok"
    THEN [NoUpdate EXCEPT !.creative =
            UpdatedCreative(s.creative,
                            IF outcome.content = UNDEF THEN DEFAULT_COPY
                            ELSE outcome.content)]
    ELSE [NoUpdate EXCEPT !.error =
            ErrorState(<<"Copy generation failed: ">>
                       \o FailureMessage("OpenAI", outcome.kind))]

\* What generateCopy returns once the fetch has settled.
CopyUpdate(s, outcome) ==
    IF outcome.kind = "ok"
    THEN [NoUpdate EXCEPT !.creative =
            UpdatedCreative(s.creative, OrElse(outcome.content, DEFAULT_COPY))]
    ELSE [NoUpdate EXCEPT !.error =
            ErrorState(<<"Copy generation failed: ">>
                       \o FailureMessage("OpenAI", outcome.kind))]

\* generateCopy from its fetch on: the response, a transport failure, or
\* the abort by the timer.
GenerateCopySettle ==
    /\ pc = "generateCopy.fetch"
    /\ Return("generateCopy", CopyUpdate(state, provider.copy))
    /\ inflight' = inflight \ {"copy"}
    /\ timers' = TimersAfter(timers, CopyTimer, provider.copy.kind)
    /\ UNCHANGED <<pollVars, csv, caller, input, env, trace, imageRequests,
                   copyRequests, provider, prompt, http>>

\* The "error" node: logs and returns { error: state.error }.
ErrorNode ==
    /\ Enter("error")
    /\ Return("error", [NoUpdate EXCEPT !.error = state.error])
    /\ UNCHANGED <<pollVars, csv, caller, input, env, imageRequests,
                   copyRequests, inflight, provider, timers, prompt, http>>

\* The "end" node: logs and returns the state itself.
EndNode ==
    /\ Enter("end")
    /\ Return("end", [creative |-> state.creative, persona |-> state.persona,
                      error |-> state.error])
    /\ UNCHANGED <<pollVars, csv, caller, input, env, imageRequests,
                   copyRequests, inflight, provider, timers, prompt, http>>

----------------------------------------------------------------------------
(* server.ts: POST /api/generate-creative *)

NoResponse ==
    [sent |-> FALSE, code |-> 0, success |-> FALSE, creative |-> NoCreative,
     persona |-> NULL, status |-> UNDEF, warning |-> << >>, error |-> << >>]

MSG_MISSING_FIELDS ==
    <<"Missing required fields: profile and product are required">>

\* { aspect, channel, fallback_image_url, ab_variant, ...options }.
DefaultOptions(options) ==
    [set |-> TRUE,
     fallback_image_url |->
        IF options.set /\ options.fallback_image_url # UNDEF
        THEN options.fallback_image_url
        ELSE DEFAULT_FALLBACK]

\* The handler up to graph.invoke: validation, the default options.
GenerateCreativeRequest ==
    /\ pc = "request"
    /\ IF ~input.profile.set \/ ~input.product.set
       THEN /\ http' = [NoResponse EXCEPT !.sent = TRUE, !.code = 400,
                                          !.error = MSG_MISSING_FIELDS]
            /\ pc' = "responded"
            /\ UNCHANGED state
       ELSE /\ state' = InitialState(
                    [input EXCEPT !.options = DefaultOptions(input.options)])
            /\ pc' = "start"
            /\ UNCHANGED http
    /\ UNCHANGED <<pollVars, csv, caller, input, env, returned, trace,
                   imageRequests, copyRequests, inflight, provider,
                   timers, prompt, exception>>

\* ResponseOf without the fallback branch: a result with an error is
\* always answered with HTTP 500.
ResponseOfNoFallback(position, result, thrown) ==
    IF position = "thrown"
    THEN [NoResponse EXCEPT !.sent = TRUE, !.code = 500, !.error = thrown,
                            !.status = "error"]
    ELSE IF result.error.set /\ result.error.error # << >>
    THEN [NoResponse EXCEPT !.sent = TRUE, !.code = 500,
                            !.error = result.error.error,
                            !.status = "error"]
    ELSE [NoResponse EXCEPT !.sent = TRUE, !.code = 200, !.success = TRUE,
                            !.creative = result.creative,
                            !.persona = result.persona,
                            !.status = result.status]

\* The response the handler builds from the result of graph.invoke, or in
\* its catch block from the exception.
ResponseOf(position, result, thrown) ==
    IF position = "thrown"
    THEN [NoResponse EXCEPT !.sent = TRUE, !.code = 500, !.error = thrown,
                            !.status = "error"]
    ELSE IF result.error.set /\ result.error.error # << >>
    THEN IF result.creative.set /\ Truthy(result.creative.image_url)
         THEN [NoResponse EXCEPT !.sent = TRUE, !.code = 200,
                                 !.success = TRUE,
                                 !.creative = result.creative,
                                 !.persona = result.persona,
                                 !.status = OrElse(result.status, "fallback"),
                                 !.warning = result.error.error]
         ELSE [NoResponse EXCEPT !.sent = TRUE, !.code = 500,
                                 !.error = result.error.error,
                                 !.status = "error"]
    ELSE [NoResponse EXCEPT !.sent = TRUE, !.code = 200, !.success = TRUE,
                            !.creative = result.creative,
                            !.persona = result.persona,
                            !.status = result.status]

\* The handler after graph.invoke settled.
GenerateCreativeRespond ==
    /\ caller = "http"
    /\ pc \in {"END", "thrown"}
    /\ http' = ResponseOf(pc, state, exception)
    /\ pc' = "responded"
    /\ UNCHANGED <<pollVars, csv, caller, input, env, state, returned, trace,
                   imageRequests, copyRequests, inflight, provider,
                   timers, prompt, exception>>

----------------------------------------------------------------------------
(* server.ts: GET /api/poll-image/:requestId *)

\* The regional endpoints, in the order of the `endpoints` array.
ENDPOINTS == <<"eu2", "eu4", "us1">>

Regions == 1..Len(ENDPOINTS)

\* What one regional endpoint does with GET /v1/get_result: an HTTP
\* success with a JSON body ("ok") or with a body that is no JSON
\* ("ok_bad_body"), a non-success status, a transport error (fetch
\* rejects), or no answer at all (the fetch carries no signal and no
\* timeout, so it stays pending).
EndpointAnswers ==
    [kind : {"ok"}, job : {"Pending", "Ready"}]
    \cup [kind : {"ok_bad_body", "http_error", "network_error", "hang"},
          job : {UNDEF}]

NoFetchResponse == [set |-> FALSE, ok |-> FALSE, from |-> 0, job |-> UNDEF]

PollIdle(position) ==
    [pc |-> position, index |-> 1, response |-> NoFetchResponse,
     lastError |-> << >>, contacted |-> << >>,
     res |-> [sent |-> FALSE, code |-> 0, status |-> UNDEF, from |-> 0,
              error |-> << >>]]

\* The handler is entered: response = null, lastError = null, the loop
\* starts at the first endpoint.
PollStart ==
    /\ poll.pc = "idle"
    /\ poll' = [poll EXCEPT !.pc = "fetch"]
    /\ UNCHANGED <<endpoints, csv, caller, input, env, state, pc, trace,
                   returned, imageRequests, copyRequests, inflight, provider,
                   timers, prompt, exception, http>>

\* One iteration of the loop up to its await: the GET is sent.
PollFetch ==
    /\ poll.pc = "fetch"
    /\ poll' = [poll EXCEPT !.pc = "await",
                            !.contacted = Append(@, poll.index)]
    /\ UNCHANGED <<endpoints, csv, caller, input, env, state, pc, trace,
                   returned, imageRequests, copyRequests, inflight, provider,
                   timers, prompt, exception, http>>

\* The locals after the fetch to endpoint i settled with `answer`: a
\* rejected fetch leaves `response` as it was and sets lastError, a
\* resolved one replaces `response`.
AfterFetch(p, i, answer) ==
    IF answer.kind = "network_error"
    THEN [p EXCEPT !.lastError = <<"fetch failed: ", ENDPOINTS[i]>>]
    ELSE [p EXCEPT !.response =
            [set |-> TRUE, ok |-> answer.kind \in {"ok", "ok_bad_body"},
             from |-> i, job |-> answer.job]]

\* AfterFetchPosition without the break on an ok response.
AfterFetchPositionNoBreak(p, i) ==
    IF i < Len(ENDPOINTS) THEN "fetch" ELSE "respond"

\* Where the loop goes after the fetch to endpoint i: `break` on an ok
\* response, else the next endpoint, else the end of the loop.
AfterFetchPosition(p, i) ==
    IF p.response.set /\ p.response.ok /\ p.response.from = i THEN "respond"
    ELSE IF i < Len(ENDPOINTS) THEN "fetch"
    ELSE "respond"

\* The rest of the iteration, once the fetch settled.
PollSettle ==
    /\ poll.pc = "await"
    /\ endpoints[poll.index].kind # "hang"
    /\ LET after == AfterFetch(poll, poll.index, endpoints[poll.index])
           position == AfterFetchPosition(after, poll.index)
       IN  poll' = [after EXCEPT !.pc = position,
                                 !.index = IF position = "fetch"
                                           THEN poll.index + 1 ELSE @]
    /\ UNCHANGED <<endpoints, csv, caller, input, env, state, pc, trace,
                   returned, imageRequests, copyRequests, inflight, provider,
                   timers, prompt, exception, http>>

MSG_ALL_FAILED == "All polling endpoints failed. Last error: "

\* PollResponse with `if (!response)` in place of
\* `if (!response || !response.ok)`.
PollResponseNoOkTest(p) ==
    IF ~p.response.set
    THEN [sent |-> TRUE, code |-> 500, status |-> "error", from |-> 0,
          error |-> <<MSG_ALL_FAILED>>
                    \o (IF p.lastError # << >> THEN p.lastError
                        ELSE <<"Unknown error">>)]
    ELSE IF endpoints[p.response.from].kind = "ok_bad_body"
    THEN [sent |-> TRUE, code |-> 500, status |-> "error",
          from |-> p.response.from,
          error |-> <<"Unexpected token < in JSON at position 0">>]
    ELSE [sent |-> TRUE, code |-> 200, status |-> p.response.job,
          from |-> p.response.from, error |-> << >>]

\* The response the handler sends after the loop.
PollResponse(p) ==
    IF ~p.response.set \/ ~p.response.ok
    THEN [sent |-> TRUE, code |-> 500, status |-> "error", from |-> 0,
          error |-> <<MSG_ALL_FAILED>>
                    \o (IF p.lastError # << >> THEN p.lastError
                        ELSE <<"Unknown error">>)]
    ELSE IF endpoints[p.response.from].kind = "ok_bad_body"
    THEN [sent |-> TRUE, code |-> 500, status |-> "error",
          from |-> p.response.from,
          error |-> <<"Unexpected token < in JSON at position 0">>]
    ELSE [sent |-> TRUE, code |-> 200, status |-> p.response.job,
          from |-> p.response.from, error |-> << >>]

PollRespond ==
    /\ poll.pc = "respond"
    /\ poll' = [poll EXCEPT !.pc = "done", !.res = PollResponse(poll)]
    /\ UNCHANGED <<endpoints, csv, caller, input, env, state, pc, trace,
                   returned, imageRequests, copyRequests, inflight, provider,
                   timers, prompt, exception, http>>

----------------------------------------------------------------------------
(* server.ts: POST /api/process-csv *)

\* The most rows an uploaded file of the model has.
MaxRows == 3

\* A row of the file, as far as the handler reads it: its contact_id
\* column, UNDEF when the column is empty.
CsvRows == [contact_id : {"FASH-001", UNDEF}]

RECURSIVE SeqsUpTo(_, _)
SeqsUpTo(S, n) ==
    IF n = 0 THEN {<< >>}
    ELSE SeqsUpTo(S, n - 1)
         \cup {Append(q, x) : q \in {r \in SeqsUpTo(S, n - 1) : Len(r) = n - 1},
                               x \in S}

\* The upload: no file, a file csv-parser reads, or one whose stream
\* emits 'error'.
Uploads ==
    [file : {"none", "unreadable"}, rows : {<< >>}]
    \cup [file : {"ok"}, rows : SeqsUpTo(CsvRows, MaxRows)]

NoCsvResponse ==
    [sent |-> FALSE, code |-> 0, success |-> FALSE, processed |-> 0,
     successful |-> 0, errorCount |-> 0, status |-> UNDEF, error |-> << >>]

\* The handler's locals: csvData is upload.rows once parsed, i the loop
\* index (from 1), results and errors the two lists; `invoked` records
\* the rows graph.invoke was called for.
CsvIdle(position) ==
    [pc |-> position, upload |-> [file |-> "none", rows |-> << >>],
     csvData |-> << >>, i |-> 1, results |-> << >>, errors |-> << >>,
     invoked |-> << >>, res |-> NoCsvResponse]

\* The handler up to the loop: the file test, then the parse.
CsvStart ==
    /\ csv.pc = "idle"
    /\ csv' =
         IF csv.upload.file = "none"
         THEN [csv EXCEPT !.pc = "done",
                          !.res = [NoCsvResponse EXCEPT
                                     !.sent = TRUE, !.code = 400,
                                     !.error = <<"No CSV file uploaded">>]]
         ELSE IF csv.upload.file = "unreadable"
         THEN [csv EXCEPT !.pc = "done",
                          !.res = [NoCsvResponse EXCEPT
                                     !.sent = TRUE, !.code = 500,
                                     !.status = "error",
                                     !.error = <<"ENOENT: no such file">>]]
         ELSE [csv EXCEPT !.pc = "loop", !.csvData = csv.upload.rows]
    /\ UNCHANGED <<pollVars, caller, input, env, state, pc, trace, returned,
                   imageRequests, copyRequests, inflight, provider, timers,
                   prompt, exception, http>>

\* The profile the loop builds from a row: contact_id, email, firstname,
\* locale, country, city, tags, interest_keywords, and none of the fields
\* inferPersona reads.
CsvProfile ==
    [set |-> TRUE, age_range |-> UNDEF_CHARS, gender |-> UNDEF,
     price_tier_demographics |-> UNDEF, preferred_category |-> UNDEF]

CsvProduct ==
    [set |-> TRUE, title |-> "Premium Fashion Item",
     brand_name |-> "Demo Brand",
     colorways |-> <<"#000000", "#F5F5F5", "#FF6B6B">>]

CsvOptions == [set |-> TRUE, fallback_image_url |-> DEFAULT_FALLBACK]

CsvInput ==
    [profile |-> CsvProfile, product |-> CsvProduct, options |-> CsvOptions,
     creative |-> NoCreative, persona |-> NULL, error |-> NoError]

\* One iteration up to its await: profile, product and options are built
\* and graph.invoke starts a new invocation with them.
CsvRow ==
    /\ csv.pc = "loop"
    /\ csv.i <= Len(csv.csvData)
    /\ csv' = [csv EXCEPT !.pc = "invoke", !.invoked = Append(@, csv.i)]
    /\ input' = CsvInput
    /\ state' = InitialState(CsvInput)
    /\ pc' = "start"
    /\ trace' = << >>
    /\ returned' = << >>
    /\ exception' = << >>
    /\ UNCHANGED <<pollVars, caller, env, imageRequests, copyRequests,
                   inflight, provider, timers, prompt, http>>

\* The contact_id of the entry of row i: profile.contact_id is
\* row.contact_id || `FASH-${Date.now()}-${i}`, the catch block uses
\* row.contact_id || `ROW-${i + 1}`.
ContactId(row, i, caught) ==
    IF Truthy(row.contact_id) THEN [text |-> row.contact_id, row |-> 0]
    ELSE IF caught THEN [text |-> "ROW-", row |-> i]
    ELSE [text |-> "FASH-", row |-> i]

\* CsvAfterRow without the try around the loop body: an exception of
\* graph.invoke reaches the catch of the handler.
CsvAfterRowNoCatch(c, position, result, thrown) ==
    IF position = "thrown"
    THEN [c EXCEPT !.pc = "done",
                   !.res = [NoCsvResponse EXCEPT
                              !.sent = TRUE, !.code = 500,
                              !.status = "error", !.error = thrown]]
    ELSE IF result.error.set /\ result.error.error # << >>
    THEN [c EXCEPT !.pc = "loop", !.i = @ + 1,
                   !.errors = Append(@, [row |-> c.i,
                                         contact_id |->
                                           ContactId(c.csvData[c.i], c.i,
                                                     FALSE),
                                         error |-> result.error.error])]
    ELSE [c EXCEPT !.pc = "loop", !.i = @ + 1,
                   !.results = Append(@, [row |-> c.i,
                                          contact_id |->
                                            ContactId(c.csvData[c.i], c.i,
                                                      FALSE),
                                          creative |-> result.creative,
                                          persona |-> result.persona,
                                          status |-> result.status])]

\* The locals after graph.invoke settled for row c.i: the row goes to
\* errors when the invocation threw or its result carries an error text,
\* to results otherwise; then i++.
CsvAfterRow(c, position, result, thrown) ==
    IF position = "thrown"
    THEN [c EXCEPT !.pc = "loop", !.i = @ + 1,
                   !.errors = Append(@, [row |-> c.i,
                                         contact_id |->
                                           ContactId(c.csvData[c.i], c.i,
                                                     TRUE),
                                         error |-> thrown])]
    ELSE IF result.error.set /\ result.error.error # << >>
    THEN [c EXCEPT !.pc = "loop", !.i = @ + 1,
                   !.errors = Append(@, [row |-> c.i,
                                         contact_id |->
                                           ContactId(c.csvData[c.i], c.i,
                                                     FALSE),
                                         error |-> result.error.error])]
    ELSE [c EXCEPT !.pc = "loop", !.i = @ + 1,
                   !.results = Append(@, [row |-> c.i,
                                          contact_id |->
                                            ContactId(c.csvData[c.i], c.i,
                                                      FALSE),
                                          creative |-> result.creative,
                                          persona |-> result.persona,
                                          status |-> result.status])]

\* The rest of the iteration, once graph.invoke returned or threw.
CsvCollect ==
    /\ csv.pc = "invoke"
    /\ pc \in {"END", "thrown"}
    /\ csv' = CsvAfterRow(csv, pc, state, exception)
    /\ pc' = "off"
    /\ UNCHANGED <<pollVars, caller, input, env, state, trace, returned,
                   imageRequests, copyRequests, inflight, provider, timers,
                   prompt, exception, http>>

\* After the loop: the file is removed and the counts are sent.
CsvRespond ==
    /\ csv.pc = "loop"
    /\ csv.i > Len(csv.csvData)
    /\ csv' = [csv EXCEPT
                 !.pc = "done",
                 !.res = [NoCsvResponse EXCEPT
                            !.sent = TRUE, !.code = 200, !.success = TRUE,
                            !.processed = Len(csv.csvData),
                            !.successful = Len(csv.results),
                            !.errorCount = Len(csv.errors)]]
    /\ UNCHANGED <<pollVars, caller, input, env, state, pc, trace, returned,
                   imageRequests, copyRequests, inflight, provider, timers,
                   prompt, exception, http>>

----------------------------------------------------------------------------
(* The specification *)

NoInput ==
    [profile |-> NoProfile, product |-> NoProduct, options |-> NoOptions,
     creative |-> NoCreative, persona |-> NULL, error |-> NoError]

\* graph.invoke takes any part of the state; the HTTP handler passes
\* profile, product and options only.
Inputs(who) ==
    IF who = "http"
    THEN [profile : Profiles, product : Products, options : OptionsSet,
          creative : {NoCreative}, persona : {NULL}, error : {NoError}]
    ELSE [profile : Profiles, product : Products, options : OptionsSet,
          creative : GivenCreatives, persona : GivenPersonas,
          error : GivenErrors]

Init ==
    /\ endpoints = [i \in Regions |-> [kind |-> "ok", job |-> "Ready"]]
    /\ poll = PollIdle("off")
    /\ caller \in {"invoke", "http"}
    /\ input \in Inputs(caller)
    /\ env \in [BFL_API_KEY : BOOLEAN, OPENAI_API_KEY : BOOLEAN]
    /\ state = IF caller = "http" THEN InitialState(NoInput)
               ELSE InitialState(input)
    /\ pc = IF caller = "http" THEN "request" ELSE "start"
    /\ trace = << >>
    /\ returned = << >>
    /\ imageRequests = 0
    /\ copyRequests = 0
    /\ inflight = {}
    /\ provider = NoAnswers
    /\ timers = {}
    /\ prompt = << >>
    /\ exception = << >>
    /\ http = NoResponse
    /\ csv = CsvIdle("off")

Next ==
    \/ Start
    \/ InferPersona
    \/ GenerateImage
    \/ GenerateImageSettle
    \/ GenerateCopy
    \/ GenerateCopySettle
    \/ ErrorNode
    \/ EndNode
    \/ GenerateCreativeRequest
    \/ GenerateCreativeRespond

Spec == Init /\ [][Next]_vars

\* The poll handler alone, for every combination of endpoint answers.
InitPoll ==
    /\ endpoints \in [Regions -> EndpointAnswers]
    /\ poll = PollIdle("idle")
    /\ caller = "none"
    /\ input = NoInput
    /\ env = [BFL_API_KEY |-> TRUE, OPENAI_API_KEY |-> TRUE]
    /\ state = InitialState(NoInput)
    /\ pc = "off"
    /\ trace = << >>
    /\ returned = << >>
    /\ imageRequests = 0
    /\ copyRequests = 0
    /\ inflight = {}
    /\ provider = NoAnswers
    /\ timers = {}
    /\ prompt = << >>
    /\ exception = << >>
    /\ http = NoResponse
    /\ csv = CsvIdle("off")

NextPoll ==
    \/ PollStart
    \/ PollFetch
    \/ PollSettle
    \/ PollRespond

SpecPoll == InitPoll /\ [][NextPoll]_vars

\* Persona inference alone, for every combination of demographic hints.
AgeRanges ==
    { AGE_18_25, AGE_26_35, AGE_36_45, AGE_18_35,
      <<"2", "9", "-", "4", "0">>, <<"3", "0", "-", "3", "9">>,
      <<"4", "6", "+">>, <<"a", "d", "u", "l", "t">>, UNDEF_CHARS }

PersonaProfiles ==
    {NoProfile}
    \cup [set : {TRUE}, age_range : AgeRanges,
          gender : {"Male", "Female", UNDEF},
          price_tier_demographics : {"Premium", "Budget", UNDEF},
          preferred_category : {"Athleisure", "beauty", UNDEF}]

InitPersona ==
    /\ endpoints = [i \in Regions |-> [kind |-> "ok", job |-> "Ready"]]
    /\ poll = PollIdle("off")
    /\ caller = "invoke"
    /\ input \in [profile : PersonaProfiles, product : Products,
                  options : {NoOptions}, creative : {NoCreative},
                  persona : {NULL}, error : {NoError}]
    /\ env = [BFL_API_KEY |-> TRUE, OPENAI_API_KEY |-> TRUE]
    /\ state = InitialState(input)
    /\ pc = "start"
    /\ trace = << >>
    /\ returned = << >>
    /\ imageRequests = 0
    /\ copyRequests = 0
    /\ inflight = {}
    /\ provider = NoAnswers
    /\ timers = {}
    /\ prompt = << >>
    /\ exception = << >>
    /\ http = NoResponse
    /\ csv = CsvIdle("off")

NextPersona ==
    \/ Start
    \/ InferPersona

SpecPersona == InitPersona /\ [][NextPersona]_vars

\* The prompt builder alone: generateImage up to its request, for every
\* persona, a range of preferred categories and of colorways.
Categories ==
    CategoryKeys \cup {UNDEF, EMPTY, "Athleisure", "Fashion", "constructor"}

PromptProfiles ==
    [set : {TRUE}, age_range : {AGE_18_25}, gender : {UNDEF},
     price_tier_demographics : {UNDEF}, preferred_category : Categories]

PromptProducts ==
    [set : {TRUE}, title : {"Premium Streetwear Hoodie"},
     brand_name : {"Demo Brand"},
     colorways : { << >>, <<"#000000">>, <<"#000000", "#F5F5F5">>,
                   <<"#F5F5F5", "#000000">>,
                   <<"#000000", "#F5F5F5", "#FF6B6B">> }]

InitPrompt ==
    /\ endpoints = [i \in Regions |-> [kind |-> "ok", job |-> "Ready"]]
    /\ poll = PollIdle("off")
    /\ caller = "invoke"
    /\ input \in [profile : PromptProfiles, product : PromptProducts,
                  options : {o \in OptionsSet : o.set},
                  creative : {NoCreative}, persona : PersonaType,
                  error : {NoError}]
    /\ env = [BFL_API_KEY |-> TRUE, OPENAI_API_KEY |-> TRUE]
    /\ state = InitialState(input)
    /\ pc = "start"
    /\ trace = << >>
    /\ returned = << >>
    /\ imageRequests = 0
    /\ copyRequests = 0
    /\ inflight = {}
    /\ provider = NoAnswers
    /\ timers = {}
    /\ prompt = << >>
    /\ exception = << >>
    /\ http = NoResponse
    /\ csv = CsvIdle("off")

NextPrompt ==
    \/ Start
    \/ GenerateImage

SpecPrompt == InitPrompt /\ [][NextPrompt]_vars

\* The batch handler, for every upload of up to MaxRows rows. Each row's
\* invocation is the workflow itself.
InitCsv ==
    /\ endpoints = [i \in Regions |-> [kind |-> "ok", job |-> "Ready"]]
    /\ poll = PollIdle("off")
    /\ caller = "csv"
    /\ input = NoInput
    /\ env \in [BFL_API_KEY : BOOLEAN, OPENAI_API_KEY : BOOLEAN]
    /\ state = InitialState(NoInput)
    /\ pc = "off"
    /\ trace = << >>
    /\ returned = << >>
    /\ imageRequests = 0
    /\ copyRequests = 0
    /\ inflight = {}
    /\ provider = NoAnswers
    /\ timers = {}
    /\ prompt = << >>
    /\ exception = << >>
    /\ http = NoResponse
    /\ \E upload \in Uploads :
          csv = [CsvIdle("idle") EXCEPT !.upload = upload]

NextCsv ==
    \/ CsvStart
    \/ CsvRow
    \/ Start
    \/ InferPersona
    \/ CsvCollect
    \/ CsvRespond

SpecCsv == InitCsv /\ [][NextCsv]_vars

----------------------------------------------------------------------------
(* Vocabulary of the properties *)

\* The three generation steps of the workflow.
Steps == {"inferPersona", "generateImage", "generateCopy"}

\* The invocation was given profile, product and options only, as the
\* callers of the repository invoke the workflow.
FreshInput ==
    input.creative = NoCreative /\ input.persona = NULL /\ input.error = NoError

\* The invocation, and for the HTTP caller its response, is over.
Finished ==
    \/ caller = "invoke" /\ pc \in {"END", "thrown"}
    \/ caller = "http" /\ pc = "responded"

\* The status and the creative the caller ends up with.
FinalStatus == IF caller = "http" THEN http.status ELSE state.status

FinalCreative == IF caller = "http" THEN http.creative ELSE state.creative

\* Node `node` has returned an ErrorState / a plain update.
Failed(node) ==
    \E i \in 1..Len(returned) :
        returned[i].node = node /\ returned[i].kind = "error"

Succeeded(node) ==
    \E i \in 1..Len(returned) :
        returned[i].node = node /\ returned[i].kind = "update"

\* The trace with the nodes of the set `keep` only.
RECURSIVE Restrict(_, _)
Restrict(seq, keep) ==
    IF seq = << >> THEN << >>
    ELSE IF Head(seq) \in keep THEN <<Head(seq)>> \o Restrict(Tail(seq), keep)
    ELSE Restrict(Tail(seq), keep)

----------------------------------------------------------------------------
(* C1 *)

\* C1 (as claimed): when the image provider fails in an invocation that has
\* profile, product and options, the invocation ends with status `fallback`
\* and a creative whose image_url is options.fallback_image_url.
C1_ImageFailureGivesFallback ==
    ( /\ Finished
      /\ FreshInput
      /\ input.profile.set /\ input.product.set /\ state.options.set
      /\ imageRequests > 0 /\ Failed("generateImage") )
    => /\ FinalStatus = "fallback"
       /\ FinalCreative.set
       /\ FinalCreative.image_url = state.options.fallback_image_url

----------------------------------------------------------------------------
(* C2 *)

\* C2 (as claimed): once a step has returned an ErrorState, the only node
\* that runs afterwards is `error`, it runs next, and what `error` returns
\* touches neither persona nor creative.
C2_ErrorStateLeadsToErrorNode ==
    \A i \in 1..Len(returned) :
        /\ (returned[i].node \in Steps /\ returned[i].kind = "error")
            => /\ \A j \in (i + 1)..Len(trace) : trace[j] = "error"
               /\ Len(trace) <= i + 1
               /\ (Len(trace) = i => pc = "error")
        /\ returned[i].node = "error"
            => /\ ~returned[i].update.creative.set
               /\ returned[i].update.persona = NULL

----------------------------------------------------------------------------
(* C3 *)

\* C3 (as claimed): no step throws out of the invocation; every step that
\* has finished returned a partial update or an ErrorState.
C3_NoStepThrows ==
    /\ pc # "thrown"
    /\ \A i \in 1..Len(returned) :
          returned[i].node \in Steps
            => returned[i].kind \in {"update", "error"}

----------------------------------------------------------------------------
(* C4 *)

\* The creative the image step returned.
ImageStepCreative ==
    LET i == CHOOSE k \in 1..Len(returned) :
                returned[k].node = "generateImage"
                /\ returned[k].kind = "update"
    IN  returned[i].update.creative

\* C4 (as claimed): when the copy step fails after the image step
\* succeeded, the final status is `success` or `fallback`, the copy is
\* empty or the default string, and the image fields are still there.
C4_CopyFailureKeepsStatus ==
    ( /\ Finished
      /\ FreshInput
      /\ Succeeded("generateImage")
      /\ Failed("generateCopy") )
    => /\ FinalStatus \in {"success", "fallback"}
       /\ FinalCreative.set
       /\ FinalCreative.copy \in {EMPTY, DEFAULT_COPY}
       /\ FinalCreative.image_url = ImageStepCreative.image_url
       /\ FinalCreative.polling_url = ImageStepCreative.polling_url
       /\ FinalCreative.request_id = ImageStepCreative.request_id

----------------------------------------------------------------------------
(* C5 *)

\* C5 (as claimed): an invocation without profile or without product ends
\* with status `error` and no creative.
C5_MissingInputGivesErrorStatus ==
    ( /\ Finished
      /\ FreshInput
      /\ (~input.profile.set \/ ~input.product.set) )
    => /\ FinalStatus = "error"
       /\ ~FinalCreative.set

----------------------------------------------------------------------------
(* C6 *)

\* C6 (as claimed): the `end` node is entered only with no ErrorState, a
\* persona, a creative and a non-empty copy.
C6_EndOnlyWhenComplete ==
    (FreshInput /\ pc = "end")
    => /\ ~state.error.set
       /\ state.persona # NULL
       /\ state.creative.set
       /\ Truthy(state.creative.copy)

----------------------------------------------------------------------------
(* C7 *)

\* seq is <<"inferPersona", "generateImage", "generateCopy">> with some of
\* its elements left out.
InStepOrder(seq) ==
    \A i, j \in 1..Len(seq) :
        i < j => \/ seq[i] = "inferPersona" /\ seq[j] # "inferPersona"
                 \/ seq[i] = "generateImage" /\ seq[j] = "generateCopy"

\* C7: the steps of an invocation run in the order persona inference, image
\* submit, copy generation, each at most once; the image provider is
\* contacted only with a persona in the state, the copy provider only with
\* the image step's creative in the state and (when the invocation was not
\* handed a creative) after the image step returned; at most one remote
\* request is in flight.
C7_StepsRunSequentially ==
    /\ InStepOrder(Restrict(trace, Steps))
    /\ imageRequests > 0 => state.persona # NULL
    /\ copyRequests > 0
        => /\ state.creative.set
           /\ "image" \notin inflight
           /\ FreshInput => Succeeded("generateImage")
    /\ Cardinality(inflight) <= 1

\* The copy request is in flight after persona inference and image submit.
C7_Witness ==
    /\ FreshInput
    /\ pc = "generateCopy.fetch"
    /\ trace = <<"inferPersona", "generateImage", "generateCopy">>
    /\ inflight = {"copy"}

----------------------------------------------------------------------------
(* C8 *)

\* C8: no remote call is retried: each provider gets at most one request
\* per invocation, and every ErrorState a step returns has a message and
\* retry_count 0.
C8_NoRetry ==
    /\ imageRequests <= 1
    /\ copyRequests <= 1
    /\ \A i \in 1..Len(returned) :
          (returned[i].node \in Steps /\ returned[i].kind = "error")
            => /\ returned[i].update.error.error # << >>
               /\ returned[i].update.error.retry_count = 0

\* Both providers were asked once, the image provider answered and the
\* copy provider failed.
C8_Witness ==
    /\ FreshInput
    /\ Finished
    /\ imageRequests = 1
    /\ copyRequests = 1
    /\ Failed("generateCopy")

----------------------------------------------------------------------------
(* C9 *)

CreativeFields == {"image_url", "persona", "polling_url", "request_id"}

\* C9: in an invocation given profile, product and options, a creative
\* field that is set keeps its value in every later state.
C9_CreativeFieldsKept ==
    [][ (FreshInput /\ state.creative.set)
         => /\ state'.creative.set
            /\ \A f \in CreativeFields :
                 state.creative[f] \notin {UNDEF, NULL}
                   => state'.creative[f] = state.creative[f] ]_vars

\* The copy step has filled in the copy of the creative the image step
\* made, polling_url and request_id included.
C9_Witness ==
    /\ FreshInput
    /\ Succeeded("generateCopy")
    /\ state.creative.copy = PROVIDER_COPY
    /\ state.creative.polling_url = POLLING_URL
    /\ state.creative.request_id = REQUEST_ID

----------------------------------------------------------------------------
(* C10 *)

\* Endpoint i answers with an HTTP-success response.
HttpSuccess(i) == endpoints[i].kind \in {"ok", "ok_bad_body"}

SomeHttpSuccess == \E i \in Regions : HttpSuccess(i)

\* The first endpoint, in the order of ENDPOINTS, that does.
FirstSuccess == CHOOSE i \in Regions :
                    HttpSuccess(i) /\ \A j \in 1..(i - 1) : ~HttpSuccess(j)

\* C10: poll contacts eu2, eu4, us1 in this order, one at a time; no
\* endpoint after the first that answers with HTTP success is contacted,
\* and what the caller gets is taken from that endpoint.
C10_FirstSuccessWins ==
    /\ \A k \in 1..Len(poll.contacted) : poll.contacted[k] = k
    /\ poll.pc = "await" => poll.contacted[Len(poll.contacted)] = poll.index
    /\ SomeHttpSuccess => Len(poll.contacted) <= FirstSuccess
    /\ (poll.pc \in {"respond", "done"} /\ SomeHttpSuccess)
        => Len(poll.contacted) = FirstSuccess
    /\ (poll.pc = "done" /\ SomeHttpSuccess)
        => /\ poll.res.from = FirstSuccess
           /\ poll.res.code = 200 <=> endpoints[FirstSuccess].kind = "ok"
           /\ poll.res.code = 200
                => poll.res.status = endpoints[FirstSuccess].job
    /\ (poll.pc = "done" /\ ~SomeHttpSuccess) => poll.res.code = 500

\* eu2 fails, eu4 and us1 both answer, with different job states: the
\* caller gets eu4's and us1 is not contacted.
C10_Witness ==
    /\ endpoints[1].kind = "http_error"
    /\ endpoints[2] = [kind |-> "ok", job |-> "Pending"]
    /\ endpoints[3] = [kind |-> "ok", job |-> "Ready"]
    /\ poll.pc = "done"
    /\ poll.contacted = <<1, 2>>
    /\ poll.res.code = 200
    /\ poll.res.status = "Pending"

----------------------------------------------------------------------------
(* C11: the error of the poll operation when every endpoint failed *)

\* Endpoint i failed: a non-success status or a transport error.
EndpointFailed(i) == endpoints[i].kind \in {"http_error", "network_error"}

AllEndpointsFailed == \A i \in Regions : EndpointFailed(i)

\* The endpoint of the most recent attempt of the loop.
LastAttempt == poll.contacted[Len(poll.contacted)]

\* The error text names the failure of endpoint i.
CarriesErrorOf(error, i) ==
    \E k \in DOMAIN error : error[k] = ENDPOINTS[i]

\* C11: when every regional endpoint failed (non-success status or
\* transport error), the poll operation answers with the
\* all-endpoints-failed error, and that error carries the underlying
\* error of the most recently failed endpoint attempt.
C11_CarriesMostRecentError ==
    (poll.pc = "done" /\ AllEndpointsFailed)
        => /\ poll.res.code = 500
           /\ poll.res.status = "error"
           /\ poll.res.error[1] = MSG_ALL_FAILED
           /\ CarriesErrorOf(poll.res.error, LastAttempt)

----------------------------------------------------------------------------
(* C12: the three response classes of POST /api/generate-creative *)

\* `success`: a creative and no warning.
SuccessResponse(r) ==
    r.code = 200 /\ r.success /\ r.creative.set /\ r.warning = << >>

\* `fallback`: a creative and a warning.
FallbackResponse(r) ==
    r.code = 200 /\ r.success /\ r.creative.set /\ r.warning # << >>

\* `error`: status "error" and no creative.
ErrorResponse(r) ==
    r.status = "error" /\ ~r.creative.set /\ ~r.success /\ r.error # << >>

\* C12: the caller of POST /api/generate-creative receives a structured
\* response that is a `success` (creative, no warning), a `fallback`
\* (creative and warning) or an `error` (status "error", no creative),
\* also when the workflow throws: an exception of the workflow is answered
\* by the handler and never left unanswered.
C12_ResponseIsStructured ==
    /\ (caller = "http" /\ pc = "responded")
          => /\ http.sent
             /\ \/ SuccessResponse(http)
                \/ FallbackResponse(http)
                \/ ErrorResponse(http)
    /\ (caller = "http" /\ pc = "thrown")
          => ~http.sent /\ ENABLED GenerateCreativeRespond

----------------------------------------------------------------------------
(* C13: a copy failure does not block delivery *)

\* The result of the workflow carries the ErrorState of the copy step and
\* a creative with an image_url, and the handler has answered.
CopyFailedWithImage ==
    /\ caller = "http"
    /\ pc = "responded"
    /\ Failed("generateCopy")
    /\ state.error.set
    /\ state.creative.set
    /\ Truthy(state.creative.image_url)

\* C13: when the workflow result of POST /api/generate-creative carries an
\* ErrorState from the copy step and a creative with an image_url, the
\* response is a success response (HTTP 200, success) with that creative,
\* the persona and the error text as warning, not an error response.
C13_CopyFailureStillDelivers ==
    CopyFailedWithImage
        => /\ http.sent
           /\ http.code = 200
           /\ http.success
           /\ http.creative = state.creative
           /\ http.persona = state.persona
           /\ http.warning = state.error.error
           /\ http.error = << >>
           /\ http.status # "error"

C13_Witness ==
    /\ CopyFailedWithImage
    /\ FreshInput
    /\ Succeeded("generateImage")
    /\ http.warning[1] = "Copy generation failed: "
    /\ http.creative.request_id = REQUEST_ID

----------------------------------------------------------------------------
(* C14: every invocation ends, also with a provider that never answers *)

\* graph.invoke has returned or thrown (and the HTTP handler may already
\* have answered).
InvocationOver == pc \in {"END", "thrown", "responded"}

\* The request to the image / copy provider was not answered and has been
\* given up.
ImageTimedOut == provider.image.kind = "timeout" /\ "image" \notin inflight

CopyTimedOut == provider.copy.kind = "timeout" /\ "copy" \notin inflight

\* How far the invocation has come.
Position(at) ==
    CASE at = "request" -> 0
      [] at = "start" -> 1
      [] at = "inferPersona" -> 2
      [] at = "generateImage" -> 3
      [] at = "generateImage.fetch" -> 4
      [] at = "generateCopy" -> 5
      [] at = "generateCopy.fetch" -> 6
      [] at \in {"end", "error"} -> 7
      [] at \in {"END", "thrown"} -> 8
      [] at = "responded" -> 9
      [] OTHER -> -1

----------------------------------------------------------------------------
(* C15: the decision table of persona inference *)

\* inferPersona has run on a profile and a product.
PersonaInferred ==
    /\ returned # << >>
    /\ returned[1].node = "inferPersona"
    /\ state.profile.set
    /\ state.product.set

\* The four explicit rules, as conditions on the profile.
Rule1(p) == p.age_range = <<"1", "8", "-", "2", "5">> /\ p.gender = "Male"

Rule2(p) == p.age_range = <<"2", "6", "-", "3", "5">> /\ p.gender = "Female"

Rule3(p) ==
    /\ p.age_range = <<"3", "6", "-", "4", "5">>
    /\ p.price_tier_demographics = "Premium"

Rule4(p) ==
    /\ p.age_range = <<"1", "8", "-", "3", "5">>
    /\ p.preferred_category = "Athleisure"

\* The persona the decision table of the claim gives, "none" when no rule
\* matches.
TablePersona(p) ==
    IF Rule1(p) THEN "Streetwear"
    ELSE IF Rule2(p) THEN "Minimalist"
    ELSE IF Rule3(p) THEN "LuxuryClassic"
    ELSE IF Rule4(p) THEN "Athleisure"
    ELSE "none"

\* C15: persona inference is a decision table whose first matching rule
\* wins: "18-25" and Male gives Streetwear, otherwise "26-35" and Female
\* gives Minimalist, otherwise "36-45" and Premium gives LuxuryClassic,
\* otherwise "18-35" and Athleisure gives Athleisure; the step returns that
\* persona and nothing else, so the persona depends on the profile only.
C15_DecisionTable ==
    (PersonaInferred /\ TablePersona(state.profile) # "none")
        => /\ returned[1].kind = "update"
           /\ returned[1].update =
                [NoUpdate EXCEPT !.persona = TablePersona(state.profile)]
           /\ state.persona = TablePersona(state.profile)
           /\ state.profile = input.profile

C15_Witness ==
    /\ PersonaInferred
    /\ Rule4(state.profile)
    /\ state.profile.gender = "Female"
    /\ state.profile.price_tier_demographics = "Premium"
    /\ state.persona = "Athleisure"

----------------------------------------------------------------------------
(* C16: the default rule of persona inference *)

\* The persona of the default rule: by the integer parsed from the part of
\* the age range before the first "-".
DefaultPersona(p) ==
    IF LessThan(ParseInt(SplitFirst(p.age_range, "-")), 30)
    THEN "Streetwear"
    ELSE "Minimalist"

\* C16: for every profile that matches none of the four rules, persona
\* inference returns the persona of the default rule (Streetwear when the
\* lower bound of the age range is below 30, Minimalist otherwise); so
\* with profile and product present persona inference always ends with a
\* persona of the closed set.
C16_DefaultRuleGivesPersona ==
    PersonaInferred
        => /\ returned[1].kind = "update"
           /\ state.persona \in PersonaType
           /\ TablePersona(state.profile) = "none"
                => state.persona = DefaultPersona(state.profile)

----------------------------------------------------------------------------
(* C17: the prompt of the image request *)

\* The request to the image provider has been sent.
PromptBuilt == imageRequests > 0

\* The photography template of a recognized category.
Template(category, title, brand) ==
    CASE category = "fashion" ->
            <<"Fashion product photography of ", title, " by ", brand>>
      [] category = "lifestyle" ->
            <<"Lifestyle product photography of ", title, " by ", brand>>
      [] category = "beauty" ->
            <<"Beauty product photography of ", title, " by ", brand>>
      [] category = "travel" ->
            <<"Travel lifestyle photography featuring ", title, " by ",
              brand>>
      [] category = "food" ->
            <<"Food and dining photography featuring ", title, " by ",
              brand>>
      [] category = "tech" ->
            <<"Tech product photography of ", title, " by ", brand>>

Recognized ==
    {"fashion", "lifestyle", "beauty", "travel", "food", "tech"}

\* The category whose template the claim selects for a profile.
SelectedCategory(p) ==
    IF p.preferred_category \in Recognized THEN p.preferred_category
    ELSE "fashion"

\* The colorways with ", " between them, in their order.
Joined(colorways) ==
    [k \in 1..(IF colorways = << >> THEN 0 ELSE 2 * Len(colorways) - 1) |->
        IF k % 2 = 1 THEN colorways[(k + 1) \div 2] ELSE ", "]

\* C17: for every persona, product and profile the prompt is the template
\* of the profile's preferred category (the "fashion" template when the
\* category is absent or not recognized), then the styling clause of the
\* persona, the colorways joined with ", " in their order and the quality
\* suffix; it depends on these inputs only.
C17_PromptIsTemplate ==
    PromptBuilt
        => prompt =
             Template(SelectedCategory(state.profile), state.product.title,
                      state.product.brand_name)
             \o <<", ", PersonaPrompt(state.persona), ", colors: ">>
             \o Joined(state.product.colorways)
             \o <<", high quality, professional photography, 4K resolution">>

----------------------------------------------------------------------------
(* C18: the copy step after an HTTP success of the copy provider *)

\* The copy provider answers the pending request of an ordinary
\* invocation with an HTTP success and a JSON body.
CopyHttpSuccess ==
    /\ FreshInput
    /\ pc = "generateCopy.fetch"
    /\ provider.copy.kind \in {"ok", "no_choices"}

\* The text of the first completion choice, where absent (or empty) the
\* default string.
ExpectedCopy ==
    IF provider.copy.content \in {UNDEF, EMPTY} THEN DEFAULT_COPY
    ELSE provider.copy.content

\* C18: when the copy provider answers with HTTP success, the copy step
\* sets creative.copy to the text of the first completion choice, or to
\* the default string when there is no such text, and returns the creative
\* with every other field unchanged and no ErrorState.
C18_CopyStepStoresText ==
    [][ CopyHttpSuccess
          => /\ state'.creative = [state.creative EXCEPT !.copy = ExpectedCopy]
             /\ returned'[Len(returned')].node = "generateCopy"
             /\ returned'[Len(returned')].kind = "update"
             /\ ~returned'[Len(returned')].update.error.set
             /\ state'.error = state.error ]_vars

----------------------------------------------------------------------------
(* C19: an empty copy from the provider *)

\* The copy provider answered the request with an empty string as copy.
EmptyCopyReturned ==
    /\ provider.copy = [kind |-> "ok", content |-> EMPTY]
    /\ "copy" \notin inflight

\* How many times the copy step has started.
CopyStepRuns == Len(Restrict(trace, {"generateCopy"}))

\* C19 (as claimed): when the copy provider returns an empty string as
\* copy, the copy step is executed again within the same invocation.
C19_EmptyCopyIsRetried ==
    (Finished /\ FreshInput /\ EmptyCopyReturned) => CopyStepRuns >= 2

\* C19 (amended): the copy step runs at most once in an invocation and
\* sends at most one request; when the copy provider returns an empty
\* string, the step stores the default string, so after a successful copy
\* step the copy is never empty.
C19_EmptyCopyBecomesDefault ==
    /\ CopyStepRuns <= 1
    /\ copyRequests <= 1
    /\ EmptyCopyReturned => state.creative.copy = DEFAULT_COPY
    /\ Succeeded("generateCopy") => Truthy(state.creative.copy)

C19_Witness ==
    /\ Finished
    /\ FreshInput
    /\ EmptyCopyReturned
    /\ CopyStepRuns = 1
    /\ state.creative.copy = DEFAULT_COPY
    /\ ~state.error.set

----------------------------------------------------------------------------
(* C20: the poll operation and an endpoint that never answers *)

\* The request to endpoint i is pending and the endpoint never answers.
WaitingOnHungEndpoint(i) ==
    /\ poll.pc = "await"
    /\ poll.index = i
    /\ endpoints[i].kind = "hang"

\* C20: every request of the poll operation carries a timeout, so the
\* operation always completes: as long as it has not answered a step can
\* be taken, and a request to an endpoint that never answers is given up,
\* after which the next endpoint is tried or the loop is over.
C20_PollAlwaysCompletes ==
    /\ poll.pc = "done" \/ ENABLED NextPoll
    /\ \A i \in Regions : WaitingOnHungEndpoint(i) => ENABLED PollSettle

----------------------------------------------------------------------------
(* C21: the poll operation under regional outages *)

\* Every endpoint gives one of the three outcomes of the claim: an HTTP
\* success with the job as JSON, a non-success status, a transport error.
ClaimedOutcomes ==
    \A i \in Regions :
        endpoints[i].kind \in {"ok", "http_error", "network_error"}

\* The caller got the job status.
JobStatusReturned ==
    /\ poll.res.sent
    /\ poll.res.code = 200
    /\ poll.res.status \in {"Pending", "Ready"}

----------------------------------------------------------------------------
(* C22: batch CSV processing *)

\* How many entries of `list` are about row r.
EntriesOf(list, r) == Cardinality({k \in DOMAIN list : list[k].row = r})

\* C22: the rows are processed one at a time in file order, each with an
\* invocation of its own that starts from the initial state; every row
\* that has been processed is in exactly one of the two lists, a row whose
\* invocation threw or returned an error is in errors, and a failed row
\* does not keep the rows after it from being processed: after all rows,
\* successful + errorCount = processed.
C22_EveryRowInOneList ==
    /\ csv.invoked = [k \in 1..Len(csv.invoked) |-> k]
    /\ csv.pc = "invoke" => Len(csv.invoked) = csv.i
    /\ csv.pc = "loop" => Len(csv.invoked) = csv.i - 1
    /\ (csv.pc = "invoke" /\ pc = "start")
          => /\ state = InitialState(CsvInput)
             /\ trace = << >>
             /\ returned = << >>
    /\ csv.pc \in {"loop", "invoke"}
          => \A r \in 1..Len(csv.csvData) :
                EntriesOf(csv.results, r) + EntriesOf(csv.errors, r)
                    = IF r < csv.i THEN 1 ELSE 0
    /\ (csv.pc = "loop" /\ csv.i > 1 /\ pc = "thrown")
          => EntriesOf(csv.errors, csv.i - 1) = 1
    /\ (csv.pc = "done" /\ csv.upload.file = "ok")
          => /\ csv.res.code = 200
             /\ csv.res.processed = Len(csv.upload.rows)
             /\ Len(csv.invoked) = csv.res.processed
             /\ csv.res.successful + csv.res.errorCount = csv.res.processed
             /\ \A r \in 1..Len(csv.upload.rows) :
                   EntriesOf(csv.results, r) + EntriesOf(csv.errors, r) = 1

\* Three rows, the first of which failed: all three were processed.
C22_Witness ==
    /\ csv.pc = "done"
    /\ Len(csv.upload.rows) = 3
    /\ csv.invoked = <<1, 2, 3>>
    /\ csv.errors[1].row = 1
    /\ csv.errors[1].error = MSG_TYPE_ERROR
    /\ csv.res.successful + csv.res.errorCount = 3

----------------------------------------------------------------------------
(* C23: no remote activity without profile or product *)

\* The invocation was given no profile or no product.
InputIncomplete == ~input.profile.set \/ ~input.product.set

\* C23: when profile or product is absent, no request is sent to the image
\* provider or to the copy provider at any point of the invocation, and
\* the invocation is fatal: it ends with an error and without a creative.
C23_NoRemoteActivity ==
    InputIncomplete
        => /\ imageRequests = 0
           /\ copyRequests = 0
           /\ inflight = {}
           /\ provider = NoAnswers
           /\ timers = {}
           /\ prompt = << >>
           /\ (FreshInput /\ Finished)
                => /\ ~FinalCreative.set
                   /\ IF caller = "http" THEN http.code = 400
                      ELSE state.error.set

\* The image step and the copy step both ran on an input without profile
\* and neither sent a request.
C23_Witness ==
    /\ InputIncomplete
    /\ FreshInput
    /\ Finished
    /\ env.BFL_API_KEY /\ env.OPENAI_API_KEY
    /\ Restrict(trace, {"generateImage", "generateCopy"})
         = <<"generateImage", "generateCopy">>
    /\ imageRequests = 0
    /\ copyRequests = 0

----------------------------------------------------------------------------
(* C24: the error description of the final result *)

\* Some step of the invocation returned an ErrorState.
SomeStepFailed == \E i \in 1..Len(returned) : returned[i].kind = "error"

\* The ErrorState of the first step that failed.
FirstError ==
    LET i == CHOOSE k \in 1..Len(returned) :
                /\ returned[k].kind = "error"
                /\ \A j \in 1..(k - 1) : returned[j].kind # "error"
    IN  returned[i].update.error

\* C24 (as claimed): once a step has written an ErrorState no later step
\* replaces its message: at every point of an invocation the error
\* description in the state is the one of the first step that failed.
C24_FirstErrorIsKept ==
    (FreshInput /\ SomeStepFailed) => state.error.error = FirstError.error

----------------------------------------------------------------------------
(* C25: a creative in the state is usable *)

\* C25: in an invocation given profile, product and options, whenever
\* creative is set in the workflow state it has a non-empty image_url, the
\* provider's polling URL or the placeholder URL when the provider
\* returned none, and its persona is the persona inferred for the
\* invocation; this holds from the image step to termination, the copy
\* possibly being empty.
C25_CreativeIsUsable ==
    (FreshInput /\ state.creative.set)
        => /\ Succeeded("generateImage")
           /\ Truthy(state.creative.image_url)
           /\ state.creative.image_url =
                IF Truthy(provider.image.polling_url)
                THEN provider.image.polling_url
                ELSE PLACEHOLDER_URL
           /\ state.persona \in PersonaType
           /\ state.creative.persona = state.persona
           /\ state.persona = PersonaOf(state.profile)
           /\ state.creative.copy \in {EMPTY, DEFAULT_COPY, PROVIDER_COPY}

\* The provider returned no polling URL: the creative carries the
\* placeholder, and its copy is still empty at termination.
C25_Witness ==
    /\ FreshInput
    /\ Finished
    /\ state.creative.set
    /\ provider.image.polling_url = UNDEF
    /\ state.creative.image_url = PLACEHOLDER_URL
    /\ state.creative.copy = EMPTY
    /\ state.creative.persona = "Streetwear"

----------------------------------------------------------------------------
(* C26: an ErrorState is never cleared *)

\* C26: once the error field of the workflow state is set it stays set,
\* with an error text, in every later state of the invocation: a step
\* that returns no error leaves the previous error in place.
C26_ErrorNeverCleared ==
    [][ state.error.set
          => /\ state'.error.set
             /\ state'.error.error # << >>
             /\ returned' # returned /\ ~returned'[Len(returned')].update.error.set
                  => state'.error = state.error ]_vars

\* The image step failed and the copy step, run on the creative the
\* invocation was given, returned its creative and no error: the error of
\* the image step is still in the state.
C26_Witness ==
    /\ Failed("generateImage")
    /\ Succeeded("generateCopy")
    /\ state.error.set
    /\ state.error.error[1] = "Image generation failed: "
    /\ state.creative.copy = PROVIDER_COPY

----------------------------------------------------------------------------
(* C27: no step writes the status *)

\* C27: in every state of an invocation, on success and failure paths
\* alike, the status of the workflow state is its default "pending"; the
\* success and fallback responses of POST /api/generate-creative, which
\* pass result.status on, carry that value.
C27_StatusStaysPending ==
    /\ state.status = "pending"
    /\ (http.sent /\ http.code = 200) => http.status = "pending"

\* A complete success: image and copy delivered, and the status is
\* still "pending".
C27_Witness ==
    /\ caller = "http"
    /\ Finished
    /\ Succeeded("generateImage")
    /\ Succeeded("generateCopy")
    /\ ~state.error.set
    /\ http.code = 200
    /\ http.creative.copy = PROVIDER_COPY
    /\ http.status = "pending"

============================================================================
